---- MODULE Spec2Model ----
(***************************************************************************)
(* Model of packages/plugin-image-generation/src/utils/supabase.ts: the    *)
(* retry executor (retryOperation), the local validation (validateImage)   *)
(* and the upload pipeline (uploadGeneratedImage) running against the      *)
(* hosted record store and blob storage, with its queries and its access   *)
(* probe; and of packages/plugin-twitter/src/actions/postImage.ts: the     *)
(* wait for a generated image and the POST_IMAGE_TWEET handler.            *)
(*                                                                         *)
(* Strings that the code takes apart are sequences of tokens: a filepath   *)
(* is a sequence in which "/" and "." are tokens of their own, so that     *)
(* split('/').pop() and split('.').pop() are computed as the code does.    *)
(* An optional value (T | null, a missing field) is a sequence of length   *)
(* 0 or 1.                                                                 *)
(*                                                                         *)
(* A network call that reports an error either had no effect at the        *)
(* backend ("fail") or took effect there before the error was reported,    *)
(* as when the response is lost ("lost"). The client cannot tell the two   *)
(* apart: it sees result.error in both.                                    *)
(***************************************************************************)
EXTENDS Integers, Sequences, FiniteSets, TLC

VARIABLES
    records,    \* the generated_images table: a sequence, the id is the index
    blobs,      \* the keys of the objects stored in the generated-images bucket
    pc,         \* per invocation: where uploadGeneratedImage stands
    input,      \* per invocation: the file at filepath, and the prompt
    recordId,   \* per invocation: let recordId (NoRecord is null)
    recordData, \* per invocation: the row the insert returned (an option)
    rt,         \* per invocation: the running retryOperation (an option)
    caught,     \* per invocation: the error the outer catch received (an option)
    ret,        \* per invocation: the value returned (<<>> is null)
    attempts,   \* history: per invocation and sub-operation, the calls issued
    applied,    \* history: per invocation, the record updates that took effect
    failed,     \* history: per invocation, the steps that threw into the catch
    harness     \* retryOperation run on its own (specification SpecRetry)

vars == <<records, blobs, pc, input, recordId, recordData, rt, caught, ret,
          attempts, applied, failed, harness>>

pipelineVars == <<records, blobs, pc, input, recordId, recordData, rt, caught,
                  ret, attempts, applied, failed>>

(***************************************************************************)
(* Bounds of the model and constants of the program.                       *)
(***************************************************************************)
MaxRetriesBound == 4

DefaultMaxRetries == 3

DefaultDelay == 1000

NoRecord == 0

MaxImageBytes == 5 * 1024 * 1024

AllowedExtensions == {<<"png">>, <<"jpg">>, <<"jpeg">>, <<"gif">>}

Procs == DOMAIN pc

(***************************************************************************)
(* retryOperation                                                          *)
(***************************************************************************)
\* The locals of one call of retryOperation, before the first attempt.
RetryStart(maxRetries, delay) ==
    [attempt |-> 1, maxRetries |-> maxRetries, delay |-> delay,
     lastError |-> <<>>, waited |-> 0, calls |-> 0,
     status |-> IF 1 <= maxRetries THEN "running" ELSE "thrown",
     value |-> <<>>]

\* return await operation(): the attempt succeeded with value v.
RetrySuccess(r, v) ==
    [r EXCEPT !.calls = @ + 1, !.status = "returned", !.value = <<v>>]

\* The doubling of the delay after a wait.
BackoffLinear(delay) == delay + delay \div 2

Backoff(delay) == delay * 2

\* Whether the failed attempt was the last one, so that no wait follows.
IsLastAttemptOffByOne(r) == r.attempt + 1 >= r.maxRetries

\* A test that lets one more attempt through.
IsLastAttemptLate(r) == r.attempt > r.maxRetries

IsLastAttempt(r) == r.attempt = r.maxRetries

\* A catch branch that keeps the first error it saw instead of the latest.
RetryFailureKeepsFirst(r, e) ==
    LET err == IF r.lastError = <<>> THEN <<e>> ELSE r.lastError
    IN  IF IsLastAttempt(r)
        THEN [r EXCEPT !.calls = @ + 1, !.lastError = err, !.status = "thrown"]
        ELSE [r EXCEPT !.calls = @ + 1, !.lastError = err,
                       !.waited = @ + r.delay,
                       !.delay = Backoff(r.delay),
                       !.attempt = @ + 1]

\* A catch branch that waits after the last attempt too.
RetryFailureWaitsLast(r, e) ==
    IF IsLastAttempt(r)
    THEN [r EXCEPT !.calls = @ + 1, !.lastError = <<e>>, !.status = "thrown",
                   !.waited = @ + r.delay]
    ELSE [r EXCEPT !.calls = @ + 1, !.lastError = <<e>>,
                   !.waited = @ + r.delay,
                   !.delay = Backoff(r.delay),
                   !.attempt = @ + 1]

\* catch (error): the attempt failed with error e.
RetryFailure(r, e) ==
    IF IsLastAttempt(r)
    THEN [r EXCEPT !.calls = @ + 1, !.lastError = <<e>>, !.status = "thrown"]
    ELSE [r EXCEPT !.calls = @ + 1, !.lastError = <<e>>,
                   !.waited = @ + r.delay,
                   !.delay = Backoff(r.delay),
                   !.attempt = @ + 1]

(***************************************************************************)
(* Strings as token sequences                                              *)
(***************************************************************************)
\* The index of the last token equal to sep, 0 when there is none.
LastIndexOf(s, sep) ==
    LET hits == {i \in 1..Len(s) : s[i] = sep}
    IN  IF hits = {} THEN 0 ELSE CHOOSE i \in hits : \A j \in hits : j <= i

\* s.split(sep).pop(): what follows the last sep, all of s when it has none.
SplitPop(s, sep) == SubSeq(s, LastIndexOf(s, sep) + 1, Len(s))

\* toLowerCase() of one token.
LowerToken(t) ==
    CASE t = "PNG" -> "png"
      [] t = "JPG" -> "jpg"
      [] t = "JPEG" -> "jpeg"
      [] t = "GIF" -> "gif"
      [] t = "Png" -> "png"
      [] t = "TXT" -> "txt"
      [] OTHER -> t

ToLowerCase(s) == [i \in 1..Len(s) |-> LowerToken(s[i])]

\* Whether the sequence s begins with the sequence prefix.
StartsWith(s, prefix) ==
    /\ Len(prefix) <= Len(s)
    /\ SubSeq(s, 1, Len(prefix)) = prefix

(***************************************************************************)
(* validateImage                                                           *)
(*                                                                         *)
(* A file is [filepath, exists, fsError, size, head]: head is the 4-byte   *)
(* buffer after fd.read (zero where the file is shorter), fsError says     *)
(* that stat, open or read throws.                                         *)
(***************************************************************************)
PngMagic == <<137, 80, 78, 71>>

JpegMagic == <<255, 216>>

GifMagic == <<71, 73, 70, 56>>

\* The extension check alone accepts the file.
ExtensionOk(filepath) ==
    LET ext == ToLowerCase(SplitPop(filepath, "."))
    IN  ext # <<>> /\ ext \in AllowedExtensions

\* The magic-number check alone accepts the buffer.
MagicOk(head) ==
    \/ StartsWith(head, PngMagic)
    \/ StartsWith(head, JpegMagic)
    \/ StartsWith(head, GifMagic)

\* A validation that lets every existing file through.
validateImageExistsOnly(f) == f.exists

validateImage(f) ==
    IF ~f.exists THEN FALSE
    ELSE IF f.fsError THEN FALSE
    ELSE IF f.size = 0 THEN FALSE
    ELSE IF f.size > MaxImageBytes THEN FALSE
    ELSE IF ~ExtensionOk(f.filepath) THEN FALSE
    ELSE IF ~MagicOk(f.head) THEN FALSE
    ELSE TRUE

(***************************************************************************)
(* The backend: the generated_images table and the generated-images bucket *)
(***************************************************************************)
\* The three ways one network call can end.
Outcomes == {"ok", "fail", "lost"}

TakesEffect(outcome) == outcome \in {"ok", "lost"}

\* An insert that stores the row as 'completed' from the start.
NewRowCompleted(recs, inp, p) ==
    [id |-> Len(recs) + 1,
     created_at |-> Len(recs) + 1,
     storage_path |-> <<>>,
     original_filepath |-> inp.file.filepath,
     prompt |-> inp.prompt,
     status |-> "completed",
     error_message |-> <<>>,
     metadata |-> {"uploadStarted", "originalFilename", "attempts"},
     creator |-> p]

\* A backend that hands every inserted row the same id.
NewRowSameId(recs, inp, p) ==
    [id |-> 1,
     created_at |-> Len(recs) + 1,
     storage_path |-> <<>>,
     original_filepath |-> inp.file.filepath,
     prompt |-> inp.prompt,
     status |-> "uploading",
     error_message |-> <<>>,
     metadata |-> {"uploadStarted", "originalFilename", "attempts"},
     creator |-> p]

\* insert([{...}]).select().single(): the row as the backend stores it. The
\* backend assigns id and created_at; creator is history, not a column.
NewRow(recs, inp, p) ==
    [id |-> Len(recs) + 1,
     created_at |-> Len(recs) + 1,
     storage_path |-> <<>>,
     original_filepath |-> inp.file.filepath,
     prompt |-> inp.prompt,
     status |-> "uploading",
     error_message |-> <<>>,
     metadata |-> {"uploadStarted", "originalFilename", "attempts"},
     creator |-> p]

\* `generated-images/${recordId}_${filename}`
StoragePath(rid, filename) == <<"generated-images", "/", rid, "_">> \o filename

\* supabase.storage.from('generated-images').getPublicUrl(storagePath)
GetPublicUrl(storagePath) ==
    <<"https://backend", "/storage/v1/object/public/", "generated-images", "/">>
        \o storagePath

\* A success patch that leaves storage_path as it was.
CompletedPatchNoPath(row, publicUrl, data) ==
    [row EXCEPT !.status = "completed",
                !.metadata = data.metadata \cup {"uploadCompleted", "processingTime"}]

\* The patch of the success path, applied to the row with id recordId.
CompletedPatch(row, publicUrl, data) ==
    [row EXCEPT !.storage_path = publicUrl,
                !.status = "completed",
                !.metadata = data.metadata \cup {"uploadCompleted", "processingTime"}]

\* error instanceof Error ? error.message : 'Unknown error'
ErrorMessage(e) == IF e.isError THEN e.message ELSE "Unknown error"

\* A failure patch that sets the status and no error_message.
ErrorPatchNoMessage(row, e) ==
    [row EXCEPT !.status = "error",
                !.metadata = {"errorTimestamp", "processingTime", "errorDetails"}]

\* A failure patch that sets the error_message and leaves the status.
ErrorPatchKeepsStatus(row, e) ==
    [row EXCEPT !.error_message = <<ErrorMessage(e)>>,
                !.metadata = {"errorTimestamp", "processingTime", "errorDetails"}]

\* A failure patch that also blanks the caller's arguments.
ErrorPatchBlanksArguments(row, e) ==
    [row EXCEPT !.status = "error",
                !.error_message = <<ErrorMessage(e)>>,
                !.original_filepath = <<>>,
                !.prompt = "",
                !.metadata = {"errorTimestamp", "processingTime", "errorDetails"}]

\* The patch of the failure handler, applied to the row with id recordId.
ErrorPatch(row, e) ==
    [row EXCEPT !.status = "error",
                !.error_message = <<ErrorMessage(e)>>,
                !.metadata = {"errorTimestamp", "processingTime", "errorDetails"}]

(***************************************************************************)
(* The errors the pipeline meets. result.error of a table call is the      *)
(* parsed error body, a plain object; the storage client and fs hand out   *)
(* Error instances.                                                        *)
(***************************************************************************)
ValidationError ==
    [isError |-> TRUE,
     message |-> "Image validation failed - check previous logs for details"]

TableError == [isError |-> FALSE, message |-> "table call failed"]

StorageError == [isError |-> TRUE, message |-> "storage call failed"]

ReadError == [isError |-> TRUE, message |-> "ENOENT"]

FilenameError ==
    [isError |-> TRUE, message |-> "Invalid filepath - no filename found"]

(***************************************************************************)
(* uploadGeneratedImage                                                    *)
(***************************************************************************)
Bump(f, p, op) == [f EXCEPT ![p][op] = @ + 1]

\* initialDelay * 2^0 + ... + initialDelay * 2^(n-1): what a retryOperation
\* has waited after n failed attempts that were not the last.
RECURSIVE BackoffSum(_, _)
BackoffSum(initialDelay, n) ==
    IF n = 0 THEN 0
    ELSE BackoffSum(initialDelay, n - 1) + initialDelay * 2 ^ (n - 1)

\* The milliseconds invocation p has spent in the retryOperation of one
\* sub-operation: the waits of the running one, and of a finished one the
\* waits between its calls.  The calls themselves take no time.
PhaseWaits(p, op) ==
    IF pc[p] = op THEN rt[p][1].waited
    ELSE IF attempts[p][op] = 0 THEN 0
    ELSE BackoffSum(DefaultDelay, attempts[p][op] - 1)

\* Date.now() - uploadStartTime, read now.
Clock(p) ==
    PhaseWaits(p, "insert") + PhaseWaits(p, "upload") + PhaseWaits(p, "update")
        + PhaseWaits(p, "errupdate")

\* const failureTime = Date.now() - uploadStartTime, read once on entry to
\* the catch block, before the handler's retryOperation.
FailureTime(p) ==
    PhaseWaits(p, "insert") + PhaseWaits(p, "upload") + PhaseWaits(p, "update")

\* A processingTime counted from the moment the backend created the row.
TimedFromCreation(row, t) ==
    [row EXCEPT !.processingTime = <<t - row.createdClock>>]

\* metadata.processingTime of a patch: the value written under that key.
Timed(row, t) == [row EXCEPT !.processingTime = <<t>>]

\* The row an insert creates, with the reading of the invocation's clock at
\* which the backend created it (history, not a column) and no
\* processingTime yet.
Inserted(row, now) == row @@ [createdClock |-> now, processingTime |-> <<>>]

\* A retry budget shared by the whole pipeline: the attempt counter and the
\* delay go on from the calls the invocation has already issued.
NewRetryShared(p) ==
    LET used == attempts[p].insert + attempts[p].upload + attempts[p].update
                    + attempts[p].errupdate
        from == IF used + 1 <= DefaultMaxRetries THEN used + 1 ELSE DefaultMaxRetries
    IN  << [RetryStart(DefaultMaxRetries, DefaultDelay)
               EXCEPT !.attempt = from, !.delay = DefaultDelay * 2 ^ (from - 1)] >>

\* retryOperation(async () => {...}) called with its defaults: every
\* sub-operation starts a retryOperation of its own.
NewRetry(p) == <<RetryStart(DefaultMaxRetries, DefaultDelay)>>

\* if (recordId) in the catch block.
HasRecordIdNever(rid) == FALSE

HasRecordId(rid) == rid # NoRecord

\* Where an exhausted error-status update leaves the invocation: the inner
\* catch logs it and the function goes on to return null.
AfterRecoveryFailureRethrow == "raised"

AfterRecoveryFailure == "returned"

\* throw inside the outer try: the catch block runs, up to its retryOperation.
Throw(p, e, step) ==
    /\ caught' = [caught EXCEPT ![p] = <<e>>]
    /\ failed' = [failed EXCEPT ![p] = @ \cup {step}]
    /\ ret' = ret
    /\ IF HasRecordId(recordId[p])
       THEN /\ pc' = [pc EXCEPT ![p] = "errupdate"]
            /\ rt' = [rt EXCEPT ![p] = NewRetry(p)]
       ELSE /\ pc' = [pc EXCEPT ![p] = "returned"]
            /\ rt' = [rt EXCEPT ![p] = <<>>]

\* A failed attempt inside retryOperation that is not the last: the wait (it
\* touches nothing but the delay) and the step to the next attempt.
Retry(p, r) ==
    /\ rt' = [rt EXCEPT ![p] = <<r>>]
    /\ UNCHANGED <<pc, caught, failed, ret>>

\* if (!isValid) throw new Error(...)
RejectsInvalidNever(valid) == FALSE

RejectsInvalid(valid) == ~valid

\* const isValid = await validateImage(filepath), and the throw on false.
Validate(p) ==
    /\ pc[p] = "start"
    /\ IF RejectsInvalid(validateImage(input[p].file))
       THEN Throw(p, ValidationError, "validation")
       ELSE /\ pc' = [pc EXCEPT ![p] = "insert"]
            /\ rt' = [rt EXCEPT ![p] = NewRetry(p)]
            /\ UNCHANGED <<caught, failed, ret>>
    /\ UNCHANGED <<records, blobs, input, recordId, recordData, attempts,
                   applied, harness>>

\* One attempt of the record insert inside its retryOperation.
InsertAttempt(p) ==
    /\ pc[p] = "insert"
    /\ \E outcome \in Outcomes :
          LET row == Inserted(NewRow(records, input[p], p), Clock(p))
              r2  == RetryFailure(rt[p][1], TableError)
          IN  /\ records' = IF TakesEffect(outcome)
                            THEN Append(records, row) ELSE records
              /\ attempts' = Bump(attempts, p, "insert")
              /\ IF outcome = "ok"
                 THEN /\ recordId' = [recordId EXCEPT ![p] = row.id]
                      /\ recordData' = [recordData EXCEPT ![p] = <<row>>]
                      /\ pc' = [pc EXCEPT ![p] = "read"]
                      /\ rt' = [rt EXCEPT ![p] = <<>>]
                      /\ UNCHANGED <<caught, failed, ret>>
                 ELSE /\ UNCHANGED <<recordId, recordData>>
                      /\ IF r2.status = "thrown"
                         THEN Throw(p, r2.lastError[1], "insert")
                         ELSE Retry(p, r2)
    /\ UNCHANGED <<blobs, input, applied, harness>>

\* const filename = filepath.split('/').pop()
Filename(inp) == SplitPop(inp.file.filepath, "/")

\* fs.promises.readFile(filepath), the filename check, the storage path.
ReadFile(p) ==
    /\ pc[p] = "read"
    /\ \E readable \in BOOLEAN :
          IF ~readable THEN Throw(p, ReadError, "read")
          ELSE IF Filename(input[p]) = <<>> THEN Throw(p, FilenameError, "filename")
          ELSE /\ pc' = [pc EXCEPT ![p] = "upload"]
               /\ rt' = [rt EXCEPT ![p] = NewRetry(p)]
               /\ UNCHANGED <<caught, failed, ret>>
    /\ UNCHANGED <<records, blobs, input, recordId, recordData, attempts,
                   applied, harness>>

\* The key the invocation uploads to, once it has a record id.
StoragePathOf(p) == StoragePath(recordId[p], Filename(input[p]))

\* One attempt of the blob upload (upsert: true) inside its retryOperation.
UploadAttempt(p) ==
    /\ pc[p] = "upload"
    /\ \E outcome \in Outcomes :
          LET r2 == RetryFailure(rt[p][1], StorageError)
          IN  /\ blobs' = IF TakesEffect(outcome)
                          THEN blobs \cup {StoragePathOf(p)} ELSE blobs
              /\ attempts' = Bump(attempts, p, "upload")
              /\ IF outcome = "ok"
                 THEN /\ pc' = [pc EXCEPT ![p] = "update"]
                      /\ rt' = [rt EXCEPT ![p] = NewRetry(p)]
                      /\ UNCHANGED <<caught, failed, ret>>
                 ELSE IF r2.status = "thrown"
                      THEN Throw(p, r2.lastError[1], "upload")
                      ELSE Retry(p, r2)
    /\ UNCHANGED <<records, input, recordId, recordData, applied, harness>>

\* One attempt of the update to 'completed' inside its retryOperation; on
\* success the function returns the row the update selected.
UpdateAttempt(p) ==
    /\ pc[p] = "update"
    /\ \E outcome \in Outcomes :
          LET rid == recordId[p]
              row == Timed(CompletedPatch(records[rid],
                                          GetPublicUrl(StoragePathOf(p)),
                                          recordData[p][1]),
                           Clock(p))
              r2  == RetryFailure(rt[p][1], TableError)
          IN  /\ records' = IF TakesEffect(outcome)
                            THEN [records EXCEPT ![rid] = row] ELSE records
              /\ applied' = IF TakesEffect(outcome)
                            THEN [applied EXCEPT ![p] = @ + 1] ELSE applied
              /\ attempts' = Bump(attempts, p, "update")
              /\ IF outcome = "ok"
                 THEN /\ pc' = [pc EXCEPT ![p] = "returned"]
                      /\ ret' = [ret EXCEPT ![p] = <<row>>]
                      /\ rt' = [rt EXCEPT ![p] = <<>>]
                      /\ UNCHANGED <<caught, failed>>
                 ELSE IF r2.status = "thrown"
                      THEN Throw(p, r2.lastError[1], "update")
                      ELSE Retry(p, r2)
    /\ UNCHANGED <<blobs, input, recordId, recordData, harness>>

\* One attempt of the update to 'error' inside the handler's retryOperation;
\* the function returns null after it, whether it succeeded or was exhausted.
ErrUpdateAttempt(p) ==
    /\ pc[p] = "errupdate"
    /\ \E outcome \in Outcomes :
          LET rid == recordId[p]
              row == Timed(ErrorPatch(records[rid], caught[p][1]), FailureTime(p))
              r2  == RetryFailure(rt[p][1], TableError)
          IN  /\ records' = IF TakesEffect(outcome)
                            THEN [records EXCEPT ![rid] = row] ELSE records
              /\ applied' = IF TakesEffect(outcome)
                            THEN [applied EXCEPT ![p] = @ + 1] ELSE applied
              /\ attempts' = Bump(attempts, p, "errupdate")
              /\ IF outcome = "ok"
                 THEN /\ pc' = [pc EXCEPT ![p] = "returned"]
                      /\ rt' = [rt EXCEPT ![p] = <<>>]
                      /\ UNCHANGED <<caught, failed, ret>>
                 ELSE IF r2.status = "thrown"
                      THEN /\ pc' = [pc EXCEPT ![p] = AfterRecoveryFailure]
                           /\ rt' = [rt EXCEPT ![p] = <<>>]
                           /\ failed' = [failed EXCEPT ![p] = @ \cup {"errupdate"}]
                           /\ UNCHANGED <<caught, ret>>
                      ELSE Retry(p, r2)
    /\ UNCHANGED <<blobs, input, recordId, recordData, harness>>

(***************************************************************************)
(* The files and prompts the invocations are given.                        *)
(***************************************************************************)
File(filepath, exists, fsError, size, head) ==
    [filepath |-> filepath, exists |-> exists, fsError |-> fsError,
     size |-> size, head |-> head]

ValidInputs ==
    { [file |-> File(<<"gen", "/", "sunset", ".", "png">>, TRUE, FALSE, 2048,
                     <<137, 80, 78, 71>>),
       prompt |-> "a sunset"],
      [file |-> File(<<"gen", "/", "cat", ".", "JPG">>, TRUE, FALSE,
                     MaxImageBytes, <<255, 216, 255, 224>>),
       prompt |-> "a cat"] }

InvalidInputs ==
    { [file |-> File(<<"gen", "/", "gone", ".", "png">>, FALSE, FALSE, 0,
                     <<0, 0, 0, 0>>),
       prompt |-> "missing"],
      [file |-> File(<<"gen", "/", "empty", ".", "png">>, TRUE, FALSE, 0,
                     <<0, 0, 0, 0>>),
       prompt |-> "empty"],
      [file |-> File(<<"gen", "/", "big", ".", "png">>, TRUE, FALSE,
                     6 * 1024 * 1024, <<137, 80, 78, 71>>),
       prompt |-> "six MiB"],
      [file |-> File(<<"gen", "/", "over", ".", "png">>, TRUE, FALSE,
                     MaxImageBytes + 1, <<137, 80, 78, 71>>),
       prompt |-> "one byte over"],
      [file |-> File(<<"gen", "/", "notes", ".", "txt">>, TRUE, FALSE, 2048,
                     <<137, 80, 78, 71>>),
       prompt |-> "wrong extension"],
      [file |-> File(<<"gen", "/", "doc", ".", "png">>, TRUE, FALSE, 2048,
                     <<37, 80, 68, 70>>),
       prompt |-> "wrong magic"],
      [file |-> File(<<"gen", "/", "locked", ".", "png">>, TRUE, TRUE, 2048,
                     <<137, 80, 78, 71>>),
       prompt |-> "stat throws"] }

PipelineInputs == ValidInputs \cup InvalidInputs

HarnessIdle ==
    [r |-> RetryStart(DefaultMaxRetries, DefaultDelay),
     maxRetries |-> DefaultMaxRetries, initialDelay |-> DefaultDelay,
     opValue |-> "v1", failures |-> 0]

NoAttempts == [insert |-> 0, upload |-> 0, update |-> 0, errupdate |-> 0]

\* One invocation of uploadGeneratedImage, about to start.
Init ==
    /\ records = <<>>
    /\ blobs = {}
    /\ pc = <<"start">>
    /\ \E inp \in PipelineInputs : input = <<inp>>
    /\ recordId = <<NoRecord>>
    /\ recordData = << <<>> >>
    /\ rt = << <<>> >>
    /\ caught = << <<>> >>
    /\ ret = << <<>> >>
    /\ attempts = <<NoAttempts>>
    /\ applied = <<0>>
    /\ failed = << {} >>
    /\ harness = HarnessIdle

Next ==
    \/ \E p \in Procs : Validate(p)
    \/ \E p \in Procs : InsertAttempt(p)
    \/ \E p \in Procs : ReadFile(p)
    \/ \E p \in Procs : UploadAttempt(p)
    \/ \E p \in Procs : UpdateAttempt(p)
    \/ \E p \in Procs : ErrUpdateAttempt(p)

Spec == Init /\ [][Next]_vars

(***************************************************************************)
(* The shape of the state.                                                 *)
(***************************************************************************)
Statuses == {"uploading", "completed", "error"}

RetryStates == {"running", "returned", "thrown"}

TypeOK ==
    /\ \A i \in DOMAIN records :
          /\ records[i].id = i
          /\ records[i].status \in Statuses
          /\ Len(records[i].error_message) <= 1
          /\ records[i].creator \in Procs
    /\ \A k \in blobs : k[3] \in DOMAIN records
    /\ \A p \in Procs :
          /\ pc[p] \in {"idle", "start", "insert", "read", "upload", "update",
                        "errupdate", "returned", "raised"}
          /\ recordId[p] \in {NoRecord} \cup DOMAIN records
          /\ Len(rt[p]) <= 1
          /\ Len(rt[p]) = 1 <=> pc[p] \in {"insert", "upload", "update", "errupdate"}
          /\ Len(rt[p]) = 1 =>
                /\ rt[p][1].status = "running"
                /\ rt[p][1].attempt \in 1..DefaultMaxRetries
                /\ rt[p][1].maxRetries = DefaultMaxRetries
          /\ Len(caught[p]) <= 1
          /\ Len(ret[p]) <= 1
          /\ Len(recordData[p]) = 1 <=> recordId[p] # NoRecord
          /\ \A op \in DOMAIN attempts[p] : attempts[p][op] \in 0..DefaultMaxRetries
          /\ applied[p] \in 0..(2 * DefaultMaxRetries)
    /\ "r" \in DOMAIN harness => harness.r.status \in RetryStates

(***************************************************************************)
(* Properties of uploadGeneratedImage (specification Spec)                 *)
(***************************************************************************)
Returned(p) == pc[p] = "returned"

\* The row whose id the invocation holds in recordId.
OwnRow(p) == records[recordId[p]]

\* The rows an insert of invocation p created.
RowsOf(p) == {i \in DOMAIN records : records[i].creator = p}

\* The keys in the bucket that carry the id of a row of invocation p.
BlobsOf(p) == {k \in blobs : k[3] \in RowsOf(p)}

\* C1: uploadGeneratedImage never raises to its caller; it returns the
\* updated record or null, and null whenever validation, the insert, the
\* file read, the blob upload, the completed-update or the error-update
\* failed.
C1_NeverRaises ==
    \A p \in Procs :
        /\ pc[p] # "raised"
        /\ Returned(p) =>
              /\ ret[p] = <<>> \/ (Len(ret[p]) = 1 /\ ret[p][1].id = recordId[p])
              /\ (failed[p] # {} \/ ~validateImage(input[p].file)) => ret[p] = <<>>

\* The blob upload and then the error-update both ran out of attempts.
C1_Witness ==
    \E p \in Procs :
        /\ Returned(p)
        /\ failed[p] = {"upload", "errupdate"}
        /\ attempts[p].errupdate = DefaultMaxRetries
        /\ ret[p] = <<>>

\* C2: for a file that fails validation the invocation returns null and has
\* made no network call at all: no insert, no upload, no update, no retry,
\* so no record and no blob exist because of it.
C2_InvalidNoNetwork ==
    \A p \in Procs :
        ~validateImage(input[p].file) =>
            /\ pc[p] \in {"start", "returned"}
            /\ attempts[p] = NoAttempts
            /\ rt[p] = <<>>
            /\ applied[p] = 0
            /\ RowsOf(p) = {}
            /\ BlobsOf(p) = {}
            /\ recordId[p] = NoRecord
            /\ Returned(p) => ret[p] = <<>> /\ failed[p] = {"validation"}

\* The 6 MiB PNG has been turned away.
C2_Witness ==
    \E p \in Procs :
        /\ Returned(p)
        /\ input[p].file.size = 6 * 1024 * 1024
        /\ ExtensionOk(input[p].file.filepath)
        /\ MagicOk(input[p].file.head)
        /\ ret[p] = <<>>

\* C3: a record returned by uploadGeneratedImage has status 'completed', a
\* non-empty storage_path that is the public locator of the blob it
\* uploaded, and no error_message.
C3_ReturnedRecordCompleted ==
    \A p \in Procs :
        (Returned(p) /\ ret[p] # <<>>) =>
            /\ ret[p][1].status = "completed"
            /\ ret[p][1].storage_path # <<>>
            /\ ret[p][1].storage_path = GetPublicUrl(StoragePathOf(p))
            /\ StoragePathOf(p) \in blobs
            /\ ret[p][1].error_message = <<>>

\* A record was returned after retries of the insert and of the upload.
C3_Witness ==
    \E p \in Procs :
        /\ Returned(p)
        /\ ret[p] # <<>>
        /\ attempts[p].insert = 2
        /\ attempts[p].upload = DefaultMaxRetries

\* The run C4 is about: the insert returned a row, the upload was exhausted.
UploadExhausted(p) ==
    /\ Returned(p)
    /\ recordId[p] # NoRecord
    /\ "upload" \in failed[p]

\* C4 as stated: when record creation succeeds and the blob upload fails on
\* all of its attempts, the record ends with status 'error', an error_message
\* and an empty storage_path.
C4_AsStated ==
    \A p \in Procs :
        UploadExhausted(p) =>
            /\ OwnRow(p).status = "error"
            /\ OwnRow(p).error_message # <<>>
            /\ OwnRow(p).storage_path = <<>>

\* C4 amended: in such a run the record ends with an empty storage_path,
\* and with status 'error' and an error_message when an attempt of the
\* error-update took effect; when all three attempts of the error-update
\* failed without effect it is left 'uploading' with no error_message.
C4_UploadExhausted ==
    \A p \in Procs :
        UploadExhausted(p) =>
            /\ OwnRow(p).storage_path = <<>>
            /\ attempts[p].upload = DefaultMaxRetries
            /\ attempts[p].update = 0
            /\ \/ /\ applied[p] >= 1
                  /\ OwnRow(p).status = "error"
                  /\ OwnRow(p).error_message # <<>>
               \/ /\ applied[p] = 0
                  /\ attempts[p].errupdate = DefaultMaxRetries
                  /\ "errupdate" \in failed[p]
                  /\ OwnRow(p).status = "uploading"
                  /\ OwnRow(p).error_message = <<>>

\* The upload was exhausted and the handler marked the record.
C4_Witness ==
    \E p \in Procs :
        /\ UploadExhausted(p)
        /\ OwnRow(p).status = "error"
        /\ OwnRow(p).error_message = <<"storage call failed">>

\* C5 as stated: a record's status changes only from 'uploading' to
\* 'completed' or from 'uploading' to 'error'; a record that is 'completed'
\* or 'error' never changes status again.
C5_AsStated ==
    [][\A i \in DOMAIN records :
          records[i].status # "uploading" =>
              records'[i].status = records[i].status]_vars

\* C6 as stated: in every state of the store, a record's storage_path is
\* non-empty if and only if its status is 'completed'.
C6_AsStated ==
    \A i \in DOMAIN records :
        records[i].storage_path # <<>> <=> records[i].status = "completed"

\* C7: in every state of the store, a record has an error_message if and
\* only if its status is 'error'.
C7_ErrorMessageIffError ==
    \A i \in DOMAIN records :
        records[i].error_message # <<>> <=> records[i].status = "error"

\* A record in status 'error' carrying its message is in the store.
C7_Witness ==
    \E i \in DOMAIN records :
        /\ records[i].status = "error"
        /\ records[i].error_message = <<"Unknown error">>

C9_AsStated ==
    \A p \in Procs :
        /\ Cardinality(RowsOf(p)) <= 1
        /\ Cardinality(BlobsOf(p)) <= 1
        /\ applied[p] <= 2

(***************************************************************************)
(* retryOperation on its own: specification SpecRetry                      *)
(*                                                                         *)
(* The operation fails or succeeds at each call as it pleases; a failure   *)
(* raises an error that names the call (the k-th call raises k), a success *)
(* returns opValue.                                                        *)
(***************************************************************************)
InitialDelays == {1, 3, DefaultDelay}

OpValues == {"v1", "v2"}

InitPipelineIdle ==
    /\ records = <<>>
    /\ blobs = {}
    /\ pc = <<"idle">>
    /\ input = << [file |-> File(<<>>, FALSE, FALSE, 0, <<0, 0, 0, 0>>), prompt |-> ""] >>
    /\ recordId = <<NoRecord>>
    /\ recordData = << <<>> >>
    /\ rt = << <<>> >>
    /\ caught = << <<>> >>
    /\ ret = << <<>> >>
    /\ attempts = <<NoAttempts>>
    /\ applied = <<0>>
    /\ failed = << {} >>

InitRetry ==
    /\ InitPipelineIdle
    /\ \E m \in 0..MaxRetriesBound, d \in InitialDelays, v \in OpValues :
          harness = [r |-> RetryStart(m, d), maxRetries |-> m,
                     initialDelay |-> d, opValue |-> v, failures |-> 0]

\* One call of the operation succeeds.
HarnessSucceed ==
    /\ harness.r.status = "running"
    /\ harness' = [harness EXCEPT !.r = RetrySuccess(@, harness.opValue)]
    /\ UNCHANGED pipelineVars

\* One call of the operation fails.
HarnessFail ==
    /\ harness.r.status = "running"
    /\ harness' = [harness EXCEPT !.r = RetryFailure(@, harness.r.calls + 1),
                                  !.failures = @ + 1]
    /\ UNCHANGED pipelineVars

NextRetry == HarnessSucceed \/ HarnessFail

SpecRetry == InitRetry /\ [][NextRetry]_vars

\* C10: when the operation fails on its first N calls and succeeds on call
\* N+1 (N < maxAttempts), retryOperation returns that success value and has
\* waited, in all, initialDelay * 2^k summed over k in 0..N-1.
C10_FailNThenSucceed ==
    /\ harness.r.status = "returned" =>
          /\ harness.failures < harness.maxRetries
          /\ harness.r.calls = harness.failures + 1
          /\ harness.r.value = <<harness.opValue>>
          /\ harness.r.waited = BackoffSum(harness.initialDelay, harness.failures)
    /\ harness.r.status = "thrown" => harness.failures >= harness.maxRetries
    /\ harness.r.status = "running" => harness.failures < harness.maxRetries

\* A run with two failures before the success, so that two waits add up.
C10_Witness ==
    /\ harness.r.status = "returned"
    /\ harness.failures = 2
    /\ harness.initialDelay = DefaultDelay
    /\ harness.r.waited = 3000

\* C11: with maxAttempts = 3 and an operation that fails at every call,
\* retryOperation calls it exactly 3 times and raises the error of the third
\* call, not that of an earlier one.
C11_ExhaustedRaisesLast ==
    (harness.r.status = "thrown" /\ harness.maxRetries = DefaultMaxRetries) =>
        /\ harness.r.calls = DefaultMaxRetries
        /\ harness.failures = DefaultMaxRetries
        /\ harness.r.lastError = <<DefaultMaxRetries>>

\* Three calls have failed and the third error was raised.
C11_Witness ==
    /\ harness.r.status = "thrown"
    /\ harness.maxRetries = DefaultMaxRetries
    /\ harness.r.calls = 3
    /\ harness.r.lastError = <<3>>

\* C12: the insert, the blob upload, the completed-update and the
\* error-update each run under a retry budget of their own: a running
\* retryOperation stands at attempt k+1 with delay 1000 * 2^k, where k counts
\* the calls of that sub-operation alone, so each may be called 3 times and
\* waits 1000 ms first whatever the earlier sub-operations used up.
C12_FreshRetryBudget ==
    \A p \in Procs :
        Len(rt[p]) = 1 =>
            LET k == attempts[p][pc[p]]
            IN  /\ k < DefaultMaxRetries
                /\ rt[p][1].attempt = k + 1
                /\ rt[p][1].calls = k
                /\ rt[p][1].maxRetries = DefaultMaxRetries
                /\ rt[p][1].delay = DefaultDelay * 2 ^ k
                /\ rt[p][1].waited = BackoffSum(DefaultDelay, k)

\* The error-update starts afresh after the insert, the upload and the
\* completed-update have each been called three times.
C12_Witness ==
    \E p \in Procs :
        /\ pc[p] = "errupdate"
        /\ attempts[p] = [insert |-> 3, upload |-> 3, update |-> 3, errupdate |-> 0]
        /\ rt[p][1].attempt = 1
        /\ rt[p][1].delay = 1000

\* The states the row of invocation p can be in when its failure handler
\* starts: as inserted, or as patched by a completed-update that took effect.
PreHandlerRows(p) ==
    {recordData[p][1]} \cup
    { Timed(CompletedPatch(recordData[p][1], GetPublicUrl(StoragePathOf(p)),
                           recordData[p][1]),
            PhaseWaits(p, "insert") + PhaseWaits(p, "upload")
                + BackoffSum(DefaultDelay, j - 1)) :
        j \in 1..attempts[p].update }

RecoveryFailed(p) == Returned(p) /\ "errupdate" \in failed[p]

\* C13 as stated: when the handler's error-update fails on all of its
\* attempts the failure is swallowed, null is returned without raising, and
\* the record is left exactly as it was before the handler ran.
C13_AsStated ==
    \A p \in Procs :
        /\ pc[p] # "raised"
        /\ RecoveryFailed(p) =>
              /\ ret[p] = <<>>
              /\ OwnRow(p) \in PreHandlerRows(p)

\* C13 amended: in that case null is returned without raising, after three
\* attempts of the error-update; the record is as it was before the handler
\* ran, unless one of the attempts reported as failed took effect at the
\* backend, and then it is that record with the error patch applied.
C13_RecoveryFailureSwallowed ==
    \A p \in Procs :
        /\ pc[p] # "raised"
        /\ RecoveryFailed(p) =>
              /\ ret[p] = <<>>
              /\ attempts[p].errupdate = DefaultMaxRetries
              /\ \/ OwnRow(p) \in PreHandlerRows(p)
                 \/ /\ OwnRow(p).status = "error"
                    /\ OwnRow(p) \in {Timed(ErrorPatch(row, caught[p][1]),
                                            FailureTime(p)) :
                                          row \in PreHandlerRows(p)}

\* The error-update was exhausted and the record is still as inserted.
C13_Witness ==
    \E p \in Procs :
        /\ RecoveryFailed(p)
        /\ ret[p] = <<>>
        /\ OwnRow(p) = recordData[p][1]
        /\ OwnRow(p).status = "uploading"

(***************************************************************************)
(* validateImage on its own: specification SpecValidate                    *)
(*                                                                         *)
(* The buffer is zero beyond the end of the file, and a file that does not *)
(* exist has no bytes.                                                     *)
(***************************************************************************)
ValidatePaths ==
    { <<"gen", "/", "sunset", ".", "png">>,
      <<"gen", "/", "cat", ".", "JPG">>,
      <<"gen", "/", "a", ".", "jpeg">>,
      <<"anim", ".", "Png">>,
      <<"anim", ".", "gif">>,
      <<"gen", "/", "notes", ".", "txt">>,
      <<"gen", "/", "x", ".">>,
      <<"gen", ".", "d", "/", "gif">>,
      <<"gen", "/", "png">>,
      <<"png">> }

ValidateSizes ==
    {0, 1, 2048, MaxImageBytes - 1, MaxImageBytes, MaxImageBytes + 1,
     6 * 1024 * 1024}

ValidateHeads ==
    { <<137, 80, 78, 71>>, <<255, 216, 255, 224>>, <<255, 216, 0, 0>>,
      <<71, 73, 70, 56>>, <<137, 80, 78, 0>>, <<37, 80, 68, 70>>,
      <<0, 0, 0, 0>> }

InitValidate ==
    /\ InitPipelineIdle
    /\ \E path \in ValidatePaths, e \in BOOLEAN, x \in BOOLEAN,
          size \in ValidateSizes, head \in ValidateHeads :
          /\ \A i \in 1..4 : i > size => head[i] = 0
          /\ ~e => size = 0
          /\ harness = [kind |-> "validate",
                        file |-> File(path, e, x, size, head),
                        result |-> <<>>]

\* const isValid = await validateImage(filepath)
RunValidate ==
    /\ harness.result = <<>>
    /\ harness' = [harness EXCEPT !.result = <<validateImage(harness.file)>>]
    /\ UNCHANGED pipelineVars

NextValidate == RunValidate

SpecValidate == InitValidate /\ [][NextValidate]_vars

\* The extension of a path: what follows the last "." of its last segment,
\* nothing when that segment has no ".".
FileExtension(filepath) ==
    LET name == SplitPop(filepath, "/")
    IN  IF LastIndexOf(name, ".") = 0 THEN <<>> ELSE SplitPop(name, ".")

\* The four checks as the claim words them.
FourChecks(f) ==
    /\ f.exists
    /\ ~f.fsError
    /\ f.size > 0 /\ f.size <= 5242880
    /\ ToLowerCase(FileExtension(f.filepath))
           \in {<<"png">>, <<"jpg">>, <<"jpeg">>, <<"gif">>}
    /\ \/ SubSeq(f.head, 1, 4) = <<137, 80, 78, 71>>
       \/ SubSeq(f.head, 1, 2) = <<255, 216>>
       \/ SubSeq(f.head, 1, 4) = <<71, 73, 70, 56>>

\* C14 as stated: validateImage returns true if and only if the file exists,
\* its size is > 0 and <= 5 MiB, its lower-cased extension is png, jpg, jpeg
\* or gif, and its first bytes are a PNG, JPEG or GIF signature; a
\* filesystem error yields false.
C14_AsStated ==
    harness.result # <<>> => harness.result[1] = FourChecks(harness.file)

\* C15 as stated: a file with the extension .png whose first bytes are the
\* JPEG magic bytes FF D8 is rejected by validateImage.
C15_AsStated ==
    ( /\ harness.result # <<>>
      /\ ToLowerCase(FileExtension(harness.file.filepath)) = <<"png">>
      /\ StartsWith(harness.file.head, JpegMagic) )
        => harness.result[1] = FALSE

(***************************************************************************)
(* Order of the backend operations (specification Spec)                    *)
(***************************************************************************)
\* Invocation p has had its blob upload return without error.
UploadSucceeded(p) ==
    /\ pc[p] \in {"update", "errupdate", "returned"}
    /\ attempts[p].upload >= 1
    /\ "read" \notin failed[p]
    /\ "upload" \notin failed[p]

\* C16 as stated: the record is inserted as 'uploading' with an empty
\* storage_path, then the blob is uploaded to the key <id>_<filename>, then
\* the record is updated to 'completed'; so a 'completed' record has a blob
\* stored under the key <its id>_<its filename>.
C16_AsStated ==
    /\ \A p \in Procs :
          pc[p] \in {"read", "upload"} =>
              OwnRow(p).status = "uploading" /\ OwnRow(p).storage_path = <<>>
    /\ \A i \in DOMAIN records :
          records[i].status = "completed" =>
              /\ UploadSucceeded(records[i].creator)
              /\ (<<i, "_">> \o SplitPop(records[i].original_filepath, "/"))
                     \in blobs

\* C16 amended: the same order, with the key the code uses, which is
\* generated-images/<id>_<filename> inside the generated-images bucket.
C16_OrderOfOperations ==
    /\ \A p \in Procs :
          /\ pc[p] \in {"start", "insert", "read"} => BlobsOf(p) = {}
          /\ pc[p] \in {"read", "upload"} =>
                /\ OwnRow(p) = recordData[p][1]
                /\ OwnRow(p).status = "uploading"
                /\ OwnRow(p).storage_path = <<>>
          /\ pc[p] \in {"start", "insert", "read", "upload"} =>
                attempts[p].update = 0
    /\ \A i \in DOMAIN records :
          records[i].status = "completed" =>
              /\ recordId[records[i].creator] = i
              /\ UploadSucceeded(records[i].creator)
              /\ attempts[records[i].creator].update >= 1
              /\ (<<"generated-images", "/", i, "_">>
                      \o SplitPop(records[i].original_filepath, "/")) \in blobs
              /\ records[i].storage_path # <<>>

\* The 2 KB PNG with prompt "a sunset" went through without a failure.
C16_Witness ==
    \E p \in Procs :
        /\ Returned(p)
        /\ input[p].prompt = "a sunset"
        /\ input[p].file.size = 2048
        /\ attempts[p] = [insert |-> 1, upload |-> 1, update |-> 1, errupdate |-> 0]
        /\ ret[p] # <<>>
        /\ OwnRow(p).status = "completed"
        /\ blobs = {<<"generated-images", "/", recordId[p], "_", "sunset", ".", "png">>}

\* The handler of invocation p has entered its error-update.
HandlerUpdates(p) == pc[p] = "errupdate" \/ attempts[p].errupdate >= 1

\* C17: the failure handler attempts the error-update if and only if a
\* record id was assigned: after a failed validation or an exhausted insert
\* no update and no upload is attempted; after a failure of the file read,
\* the upload or the completed-update, the update of that same record to
\* 'error' with an error_message is attempted under a retry of its own.
C17_HandlerUpdatesIffRecordId ==
    /\ \A p \in Procs :
          /\ HandlerUpdates(p) <=> (recordId[p] # NoRecord /\ failed[p] # {})
          /\ pc[p] = "errupdate" => Len(rt[p]) = 1 /\ Len(caught[p]) = 1
          /\ (failed[p] \cap {"validation", "insert"}) # {} =>
                /\ Returned(p)
                /\ recordId[p] = NoRecord
                /\ attempts[p].upload = 0
                /\ attempts[p].update = 0
                /\ attempts[p].errupdate = 0
                /\ applied[p] = 0
          /\ (failed[p] \cap {"read", "upload", "update"}) # {} =>
                /\ recordId[p] # NoRecord
                /\ HandlerUpdates(p)
    /\ \A i \in DOMAIN records :
          records[i].status = "error" =>
              /\ recordId[records[i].creator] = i
              /\ attempts[records[i].creator].errupdate >= 1
              /\ records[i].error_message # <<>>

\* The completed-update was exhausted and the handler marked the record.
C17_Witness ==
    \E p \in Procs :
        /\ Returned(p)
        /\ failed[p] = {"update"}
        /\ attempts[p].errupdate = 2
        /\ OwnRow(p).status = "error"
        /\ OwnRow(p).error_message = <<"Unknown error">>

(***************************************************************************)
(* Two invocations of uploadGeneratedImage, interleaved at their awaits.   *)
(* Each step of an invocation is one of the actions above; the two share   *)
(* the table and the bucket and nothing else.  At most MaxFaults calls of  *)
(* a behaviour fail.                                                       *)
(***************************************************************************)
MaxFaults == 5

InitTwo ==
    /\ records = <<>>
    /\ blobs = {}
    /\ pc = <<"start", "start">>
    /\ \E a \in ValidInputs, b \in ValidInputs : input = <<a, b>>
    /\ recordId = <<NoRecord, NoRecord>>
    /\ recordData = << <<>>, <<>> >>
    /\ rt = << <<>>, <<>> >>
    /\ caught = << <<>>, <<>> >>
    /\ ret = << <<>>, <<>> >>
    /\ attempts = <<NoAttempts, NoAttempts>>
    /\ applied = <<0, 0>>
    /\ failed = << {}, {} >>
    /\ harness = HarnessIdle

\* The calls of invocation p that reported an error so far: the calls it
\* issued less the ones that returned, and the file read if that failed.
Faults(p) ==
    LET calls == attempts[p].insert + attempts[p].upload + attempts[p].update
                     + attempts[p].errupdate
        insertOk == IF recordId[p] # NoRecord THEN 1 ELSE 0
        uploadOk == IF pc[p] = "update" \/ attempts[p].update > 0 THEN 1 ELSE 0
        updateOk == IF ret[p] # <<>> THEN 1 ELSE 0
        errOk    == IF /\ pc[p] = "returned"
                       /\ attempts[p].errupdate > 0
                       /\ "errupdate" \notin failed[p]
                    THEN 1 ELSE 0
        readBad  == IF "read" \in failed[p] THEN 1 ELSE 0
    IN  calls - insertOk - uploadOk - updateOk - errOk + readBad

WithinFaultBudget == Faults(1) + Faults(2) <= MaxFaults

NextTwo ==
    \/ \E p \in Procs : Validate(p) /\ WithinFaultBudget'
    \/ \E p \in Procs : InsertAttempt(p) /\ WithinFaultBudget'
    \/ \E p \in Procs : ReadFile(p) /\ WithinFaultBudget'
    \/ \E p \in Procs : UploadAttempt(p) /\ WithinFaultBudget'
    \/ \E p \in Procs : UpdateAttempt(p) /\ WithinFaultBudget'
    \/ \E p \in Procs : ErrUpdateAttempt(p) /\ WithinFaultBudget'

SpecTwo == InitTwo /\ [][NextTwo]_vars

\* The invocation that issued a call in this step.
Stepped(p) == attempts'[p] # attempts[p]

\* What the rows and the invocations' record ids look like when every
\* invocation works on a record of its own.
OwnRecords ==
    /\ \A p, q \in Procs :
          p # q /\ recordId[p] # NoRecord => recordId[p] # recordId[q]
    /\ \A p \in Procs :
          recordId[p] # NoRecord =>
              /\ recordId[p] \in DOMAIN records
              /\ records[recordId[p]].creator = p
              /\ records[recordId[p]].id = recordId[p]
    /\ \A i \in DOMAIN records :
          LET row == records[i]
              p   == row.creator
          IN  /\ row.id = i
              /\ row.original_filepath = input[p].file.filepath
              /\ row.prompt = input[p].prompt
              /\ i # recordId[p] => row.status = "uploading"
              /\ row.status = "uploading" => row.storage_path = <<>>
              /\ row.status = "completed" =>
                    /\ attempts[p].update >= 1
                    /\ row.storage_path =
                          GetPublicUrl(StoragePath(i, Filename(input[p])))
              /\ row.status = "error" =>
                    /\ attempts[p].errupdate >= 1
                    /\ caught[p] # <<>>
                    /\ row.error_message = <<ErrorMessage(caught[p][1])>>

\* C18: two interleaved invocations (of different files or of the same
\* file) work on records of their own: the ids are distinct, a row changes
\* only in a step of the invocation that created it and that holds its id,
\* a new row belongs to the invocation that inserted it, and what a row
\* holds is determined by the input and the outcomes of its creator.
C18_StepKeepsOthers ==
    /\ Len(records') >= Len(records)
    /\ \A i \in DOMAIN records :
          records'[i] # records[i] =>
              \E p \in Procs : /\ Stepped(p)
                                /\ recordId[p] = i
                                /\ records[i].creator = p
                                /\ records'[i].creator = p
    /\ \A i \in (DOMAIN records') \ (DOMAIN records) :
          \E p \in Procs : /\ attempts'[p].insert = attempts[p].insert + 1
                            /\ records'[i].creator = p
    /\ OwnRecords'

C18_Independent == [][C18_StepKeepsOthers]_vars

\* The same file uploaded twice, interleaved: the invocation that inserted
\* second completed its record, the one that inserted first failed to read
\* the file and marked its own record.
C18_Witness ==
    /\ input[1] = input[2]
    /\ Returned(1) /\ Returned(2)
    /\ recordId[1] = 2 /\ recordId[2] = 1
    /\ records[2].status = "completed" /\ ret[1] = <<records[2]>>
    /\ records[1].status = "error" /\ ret[2] = <<>>
    /\ Len(records) = 2

(***************************************************************************)
(* getLatestGeneratedImage and getGeneratedImageById against a store that  *)
(* already holds rows.  harness holds the locals of the one query that is  *)
(* run: its retryOperation, the value it returned (<<>> is null) and the   *)
(* number of calls the backend answered.                                   *)
(***************************************************************************)
MaxStoreLen == 3

\* A row of generated_images as an earlier upload left it.
StoreRow(i, t, s) ==
    [id |-> i,
     created_at |-> t,
     storage_path |-> IF s = "completed"
                      THEN GetPublicUrl(StoragePath(i, <<"img", ".", "png">>))
                      ELSE <<>>,
     original_filepath |-> <<"gen", "/", "img", ".", "png">>,
     prompt |-> "a sunset",
     status |-> s,
     error_message |-> IF s = "error" THEN <<"Unknown error">> ELSE <<>>,
     metadata |-> IF s = "error"
                  THEN {"errorTimestamp", "processingTime", "errorDetails"}
                  ELSE {"uploadStarted", "originalFilename", "attempts"},
     creator |-> 1]

\* The orders in which n rows may have been created.
CreationOrders(n) ==
    {f \in [1..n -> 1..n] : \A i, j \in 1..n : i # j => f[i] # f[j]}

\* Every store of up to MaxStoreLen rows: any status per row, and creation
\* times in any order against the ids.
Stores ==
    UNION { { [i \in 1..n |-> StoreRow(i, t[i], s[i])] :
                t \in CreationOrders(n), s \in [1..n -> Statuses] } :
            n \in 0..MaxStoreLen }

QueryIds == 1..(MaxStoreLen + 1)

\* PostgREST's answer to .single() when the result is not exactly one row.
NoRowsError == [isError |-> FALSE, message |-> "PGRST116"]

\* .maybeSingle(): no row is an answer (data null), not an error.
MaybeSingle(rows) ==
    IF Cardinality(rows) <= 1
    THEN [error |-> <<>>,
          data |-> IF rows = {} THEN <<>> ELSE <<CHOOSE row \in rows : TRUE>>]
    ELSE [error |-> <<NoRowsError>>, data |-> <<>>]

\* .single(): the one row, or an error.
Single(rows) ==
    IF Cardinality(rows) = 1
    THEN [error |-> <<>>, data |-> <<CHOOSE row \in rows : TRUE>>]
    ELSE [error |-> <<NoRowsError>>, data |-> <<>>]

\* .order('created_at', { ascending: true })
Ascending(a, b) == a.created_at <= b.created_at

\* .order('created_at', { ascending: false })
Descending(a, b) == a.created_at >= b.created_at

\* .eq('status', 'completed').order(...).limit(1)
LatestSelect(recs) ==
    LET rows == {recs[i] : i \in {j \in DOMAIN recs : recs[j].status = "completed"}}
    IN  {row \in rows : \A other \in rows : Descending(row, other)}

\* An id filter that also asks for a finished upload.
MatchesIdCompleted(row, id) == row.id = id /\ row.status = "completed"

\* .eq('id', id)
MatchesId(row, id) == row.id = id

ByIdSelect(recs, id) ==
    {recs[i] : i \in {j \in DOMAIN recs : MatchesId(recs[j], id)}}

\* Where the catch block of a query leaves the call: it logs and returns null.
AfterQueryFailure == "returned"

InitQuery ==
    /\ records \in Stores
    /\ blobs = {}
    /\ pc = <<"idle">>
    /\ input = << [file |-> File(<<>>, FALSE, FALSE, 0, <<0, 0, 0, 0>>), prompt |-> ""] >>
    /\ recordId = <<NoRecord>>
    /\ recordData = << <<>> >>
    /\ rt = << <<>> >>
    /\ caught = << <<>> >>
    /\ ret = << <<>> >>
    /\ attempts = <<NoAttempts>>
    /\ applied = <<0>>
    /\ failed = << {} >>
    /\ \E q \in {[kind |-> "latest", id |-> NoRecord]}
                 \cup {[kind |-> "byId", id |-> i] : i \in QueryIds} :
          harness = [kind |-> q.kind, id |-> q.id,
                     r |-> RetryStart(DefaultMaxRetries, DefaultDelay),
                     answered |-> 0, status |-> "pending", result |-> <<>>]

\* One attempt of a query inside its retryOperation: if (result.error) throw
\* result.error; the function returns data once retryOperation returned, and
\* null from its catch once retryOperation threw.
QueryAttempt(rows) ==
    /\ harness.status = "pending"
    /\ harness.r.status = "running"
    /\ \E outcome \in Outcomes :
          LET result == IF outcome = "ok" THEN Single(rows)
                        ELSE [error |-> <<TableError>>, data |-> <<>>]
              r2 == IF result.error = <<>>
                    THEN RetrySuccess(harness.r, result)
                    ELSE RetryFailure(harness.r, result.error[1])
          IN  harness' =
                [harness EXCEPT
                   !.r = r2,
                   !.answered = IF outcome = "ok" THEN @ + 1 ELSE @,
                   !.status = IF r2.status = "returned" THEN "returned"
                              ELSE IF r2.status = "thrown" THEN AfterQueryFailure
                              ELSE "pending",
                   !.result = IF r2.status = "returned" THEN result.data ELSE <<>>]
    /\ UNCHANGED pipelineVars

LatestAttempt ==
    /\ harness.kind = "latest"
    /\ QueryAttempt(LatestSelect(records))

ByIdAttempt ==
    /\ harness.kind = "byId"
    /\ QueryAttempt(ByIdSelect(records, harness.id))

NextQuery == LatestAttempt \/ ByIdAttempt

SpecQuery == InitQuery /\ [][NextQuery]_vars

\* C19: getLatestGeneratedImage never raises; once it has returned, if the
\* store holds a completed record and the backend answered a call, the value
\* is the completed record with the greatest created_at, and if the store
\* holds no completed record or no call was answered, the value is null; a
\* record in status 'uploading' or 'error' is never returned.
C19_LatestCompletedOrNull ==
    harness.kind = "latest" =>
        /\ harness.status # "raised"
        /\ harness.status = "pending" => harness.result = <<>>
        /\ harness.status = "returned" =>
              LET completed == {records[i] : i \in
                                  {j \in DOMAIN records :
                                      records[j].status = "completed"}}
              IN  /\ (completed # {} /\ harness.answered >= 1) =>
                        \E row \in completed :
                            /\ harness.result = <<row>>
                            /\ \A other \in completed :
                                  other.created_at <= row.created_at
                  /\ (completed = {} \/ harness.answered = 0) =>
                        harness.result = <<>>
                  /\ harness.result # <<>> =>
                        harness.result[1].status = "completed"

\* The second call was answered: of two completed rows the one created
\* later is returned, though the row created last of all is still uploading.
C19_Witness ==
    /\ harness.kind = "latest"
    /\ harness.status = "returned"
    /\ harness.r.calls = 2
    /\ Len(records) = 3
    /\ records[1].status = "completed" /\ records[1].created_at = 2
    /\ records[2].status = "completed" /\ records[2].created_at = 1
    /\ records[3].status = "uploading" /\ records[3].created_at = 3
    /\ harness.result = <<records[1]>>

\* C20: getGeneratedImageById never raises; once it has returned, the value
\* is the record with the id asked for, whatever its status, if there is one
\* and the backend answered a call within the 3 attempts, and null if no
\* record has that id or no call was answered.
C20_ByIdRecordOrNull ==
    harness.kind = "byId" =>
        /\ harness.status # "raised"
        /\ harness.status = "pending" => harness.result = <<>>
        /\ harness.status = "returned" =>
              /\ (harness.id \in DOMAIN records /\ harness.answered >= 1) =>
                    harness.result = <<records[harness.id]>>
              /\ (harness.id \notin DOMAIN records \/ harness.answered = 0) =>
                    harness.result = <<>>
              /\ harness.answered = 0 => harness.r.calls = DefaultMaxRetries

\* The third call was answered and the record, in status 'error', returned.
C20_Witness ==
    /\ harness.kind = "byId"
    /\ harness.status = "returned"
    /\ harness.id = 2
    /\ harness.r.calls = 3
    /\ Len(records) = 3
    /\ records[2].status = "error"
    /\ harness.result = <<records[2]>>

(***************************************************************************)
(* verifyImageAccess run on its own.  harness holds the record's           *)
(* storage_path, what the HEAD probe meets, and the value returned.  A     *)
(* JavaScript value that may be true, false or undefined is one of the     *)
(* strings "true", "false", "undefined".                                   *)
(***************************************************************************)
\* The HTTP statuses the probe is answered with.
ProbeStatuses == {200, 204, 206, 299, 301, 304, 403, 404, 500, 503}

\* The content-type header of the answer: <<>> when the header is absent,
\* else the one value, as tokens.
ProbeContentTypes ==
    { <<>>,
      << <<"image/", "png">> >>,
      << <<"image/", "jpeg">> >>,
      << <<"image/">> >>,
      << <<"Image/", "png">> >>,
      << <<"image">> >>,
      << <<"text/", "html">> >>,
      << <<"application/", "image/", "png">> >>,
      << <<>> >> }

\* record.storage_path of the records handed in: of a completed record, and
\* of one that never got a locator.
ProbeUrls ==
    { GetPublicUrl(StoragePath(1, <<"img", ".", "png">>)), <<>> }

\* response.ok
ResponseOk(status) == status >= 200 /\ status <= 299

\* response.headers.get('content-type')?.startsWith('image/')
HeaderStartsWith(header, prefix) ==
    IF header = <<>> THEN "undefined"
    ELSE IF StartsWith(header[1], prefix) THEN "true" ELSE "false"

\* a && b for a boolean a
JsAnd(a, b) == IF a THEN b ELSE "false"

\* The value verifyImageAccess returns: isAccessible, or false from the
\* catch when fetch rejected.
verifyImageAccess(probe) ==
    IF probe.rejects THEN "false"
    ELSE JsAnd(ResponseOk(probe.status),
               HeaderStartsWith(probe.contentType, <<"image/">>))

InitAccess ==
    /\ InitPipelineIdle
    /\ \E url \in ProbeUrls, x \in BOOLEAN, s \in ProbeStatuses,
          ct \in ProbeContentTypes :
          /\ url = <<>> => x
          /\ harness = [kind |-> "access",
                        probe |-> [url |-> url, rejects |-> x, status |-> s,
                                   contentType |-> ct],
                        result |-> <<>>]

\* const accessible = await verifyImageAccess(record)
RunAccess ==
    /\ harness.result = <<>>
    /\ harness' = [harness EXCEPT !.result = <<verifyImageAccess(harness.probe)>>]
    /\ UNCHANGED pipelineVars

NextAccess == RunAccess

SpecAccess == InitAccess /\ [][NextAccess]_vars

\* C21 as stated: verifyImageAccess returns a boolean, true if and only if
\* the probe succeeded with a content type that starts with image/, and the
\* boolean false in every other case, a missing header and a network error
\* included.
C21_AsStated ==
    harness.result # <<>> =>
        LET p == harness.probe
            image == /\ ~p.rejects
                     /\ p.status >= 200 /\ p.status <= 299
                     /\ p.contentType # <<>>
                     /\ Len(p.contentType[1]) >= 1
                     /\ p.contentType[1][1] = "image/"
        IN  /\ harness.result[1] \in {"true", "false"}
            /\ harness.result[1] = "true" <=> image

\* The records in a terminal status.
Terminal(i) == records[i].status \in {"completed", "error"}

\* The waits of a finished retryOperation that issued k calls.
WaitsOfCalls(k) == IF k = 0 THEN 0 ELSE BackoffSum(DefaultDelay, k - 1)

\* C22 as stated: a record in status 'completed' or 'error' carries
\* metadata.processingTime and the value is the time elapsed since the
\* record was created, so that it cannot exceed what the invocation's clock
\* has advanced since the creation.
C22_AsStated ==
    \A i \in DOMAIN records :
        Terminal(i) =>
            /\ "processingTime" \in records[i].metadata
            /\ records[i].processingTime # <<>>
            /\ records[i].processingTime[1] + records[i].createdClock
                  <= Clock(records[i].creator)

\* C22, corrected: a record in status 'completed' or 'error' carries
\* metadata.processingTime, and the value is the time elapsed since the
\* invocation started (before validation and the insert): on a completed
\* record, up to the update attempt that wrote it; on an error record, up to
\* the entry of the failure handler, the handler's own retries left out.
C22_ProcessingTimeFromStart ==
    \A i \in DOMAIN records :
        Terminal(i) =>
            LET row == records[i]
                p   == row.creator
                a   == attempts[p]
            IN  /\ "processingTime" \in row.metadata
                /\ row.processingTime # <<>>
                /\ row.status = "completed" =>
                      \E j \in 1..a.update :
                          row.processingTime[1] =
                              WaitsOfCalls(a.insert) + WaitsOfCalls(a.upload)
                                  + WaitsOfCalls(j)
                /\ row.status = "error" =>
                      row.processingTime[1] =
                          WaitsOfCalls(a.insert) + WaitsOfCalls(a.upload)
                              + WaitsOfCalls(a.update)
                /\ row.processingTime[1] >= row.createdClock

\* The insert succeeded at its second call, the upload at its third, the
\* update at its first: the record was created at 1000 ms and its
\* processingTime is 4000.
C22_Witness ==
    \E p \in Procs :
        /\ Returned(p)
        /\ ret[p] # <<>>
        /\ OwnRow(p).status = "completed"
        /\ OwnRow(p).createdClock = 1000
        /\ OwnRow(p).processingTime = <<4000>>

\* C23: original_filepath and prompt of a record are the caller's arguments
\* from its creation on: a new row carries the filepath and the prompt of
\* the invocation that inserted it, and no step, on the completed path or on
\* the error path, changes them in a row that exists.
C23_ArgumentsKept ==
    \A i \in DOMAIN records' :
        /\ i \in DOMAIN records =>
              /\ records'[i].original_filepath = records[i].original_filepath
              /\ records'[i].prompt = records[i].prompt
        /\ records'[i].original_filepath = input[records'[i].creator].file.filepath
        /\ records'[i].prompt = input[records'[i].creator].prompt

C23_ArgumentsImmutable == [][C23_ArgumentsKept]_vars

\* Both updates took effect on the record, the completed one (reported as
\* failed) and then the error one, and it still holds the arguments.
C23_Witness ==
    \E p \in Procs :
        /\ Returned(p)
        /\ applied[p] = 2
        /\ OwnRow(p).status = "error"
        /\ OwnRow(p).storage_path # <<>>
        /\ OwnRow(p).original_filepath = <<"gen", "/", "cat", ".", "JPG">>
        /\ OwnRow(p).prompt = "a cat"

\* C24 as stated: the metadata keys written at creation (uploadStarted,
\* originalFilename, attempts) are present in every record at every time,
\* later updates only adding keys.
C24_AsStated ==
    \A i \in DOMAIN records :
        {"uploadStarted", "originalFilename", "attempts"} \subseteq records[i].metadata

(***************************************************************************)
(* generateNewImage (plugin-twitter, postImage.ts) run on its own.         *)
(* harness holds its locals: the two promises (<<>> while pending), the    *)
(* promise of Promise.race, the clock, and a log of the events in the      *)
(* order they happened.  null is <<>>, a string s is <<s>>.                *)
(***************************************************************************)
TimeoutMs == 30000

Tick == 10000

MaxClock == 50000

MaxCallbacks == 2

\* The attachment lists (by url) the handler passes to its callback.
AttachmentLists == { <<>>, <<"u1">>, <<"u2", "u3">>, <<"">> }

Resolved(v) == [state |-> "resolved", value |-> v]

Rejected == [state |-> "rejected", value |-> <<>>]

\* A promise that takes the latest settlement.
SettleAgain(promise, outcome) == <<outcome>>

\* resolve / reject: a promise settles once; later calls change nothing.
Settle(promise, outcome) == IF promise = <<>> THEN <<outcome>> ELSE promise

\* !result
Falsy(v) == v = <<>> \/ v = <<"">>

InitGenerate ==
    /\ InitPipelineIdle
    /\ \E found \in BOOLEAN :
          harness = [kind |-> "generate", hasAction |-> found,
                     phase |-> "init", now |-> 0,
                     imagePromise |-> <<>>, timeoutPromise |-> <<>>,
                     race |-> <<>>, generatedImagePath |-> <<>>,
                     callbacks |-> 0, result |-> <<>>, log |-> <<>>]

\* runtime.actions.find(...), the call of the handler inside the promise's
\* executor (a handler that throws there rejects imagePromise), the timer,
\* up to the await of Promise.race.
GenStart ==
    /\ harness.phase = "init"
    /\ IF ~harness.hasAction
       THEN harness' = [harness EXCEPT !.phase = "returned", !.result = <<>>]
       ELSE \E throws \in BOOLEAN :
              IF throws
              THEN harness' =
                     [harness EXCEPT
                        !.phase = "waiting",
                        !.imagePromise = Settle(@, Rejected),
                        !.race = Settle(@, Rejected),
                        !.callbacks = MaxCallbacks,
                        !.log = Append(@, [ev |-> "throw", at |-> harness.now,
                                           attachments |-> <<>>])]
              ELSE harness' = [harness EXCEPT !.phase = "waiting"]
    /\ UNCHANGED pipelineVars

\* The handler calls the callback, before or after the function returned.
GenCallback ==
    /\ harness.phase \in {"waiting", "returned"}
    /\ harness.hasAction
    /\ harness.callbacks < MaxCallbacks
    /\ \E attachments \in AttachmentLists :
          LET v == IF Len(attachments) > 0 THEN <<attachments[1]>> ELSE <<>>
          IN  harness' =
                [harness EXCEPT
                   !.generatedImagePath = IF Len(attachments) > 0 THEN v ELSE @,
                   !.imagePromise = Settle(@, Resolved(v)),
                   !.race = Settle(@, Resolved(v)),
                   !.callbacks = @ + 1,
                   !.log = Append(@, [ev |-> "callback", at |-> harness.now,
                                      attachments |-> attachments])]
    /\ UNCHANGED pipelineVars

\* Time passes since the call (now counts from it); the timer set for
\* TimeoutMs fires when that time is reached.
GenAdvance ==
    /\ harness.phase # "init"
    /\ harness.now < MaxClock
    /\ LET fires == /\ harness.hasAction
                    /\ harness.timeoutPromise = <<>>
                    /\ harness.now + Tick >= TimeoutMs
           t == IF fires THEN TimeoutMs ELSE harness.now + Tick
       IN  harness' =
             IF fires
             THEN [harness EXCEPT
                     !.now = t,
                     !.timeoutPromise = Settle(@, Resolved(<<>>)),
                     !.race = Settle(@, Resolved(<<>>)),
                     !.log = Append(@, [ev |-> "timeout", at |-> t,
                                        attachments |-> <<>>])]
             ELSE [harness EXCEPT !.now = t]
    /\ UNCHANGED pipelineVars

\* The await resumes with the settled race: null from the catch when it
\* rejected, null when the value is falsy, else the value.
GenReturn ==
    /\ harness.phase = "waiting"
    /\ harness.race # <<>>
    /\ LET settled == harness.race[1]
       IN  harness' =
             [harness EXCEPT
                !.phase = "returned",
                !.result = IF settled.state = "rejected" \/ Falsy(settled.value)
                           THEN <<>> ELSE settled.value]
    /\ UNCHANGED pipelineVars

NextGenerate == GenStart \/ GenCallback \/ GenAdvance \/ GenReturn

SpecGenerate == InitGenerate /\ [][NextGenerate]_vars

\* What holds of the value once generateNewImage has returned.
RaceDecided ==
    harness.phase = "returned" =>
        /\ harness.result # <<>> =>
              /\ harness.log # <<>>
              /\ harness.log[1].ev = "callback"
              /\ harness.log[1].at < 30000
              /\ Len(harness.log[1].attachments) > 0
              /\ harness.result = <<harness.log[1].attachments[1]>>
        /\ (harness.log # <<>> /\ harness.log[1].ev = "timeout") =>
              /\ harness.result = <<>>
              /\ harness.log[1].at = 30000
        /\ (harness.log # <<>> /\ harness.log[1].ev = "callback"
                /\ harness.log[1].attachments = <<>>) =>
              harness.result = <<>>
        /\ \A k \in DOMAIN harness.log : harness.log[k].ev = "timeout" =>
              harness.log[k].at = 30000

\* C25: generateNewImage races the callback against a 30000 ms timer: it
\* returns the first attachment's url only if the callback came with a
\* non-empty list before the timer fired, null if the timer fired first or
\* the callback came with no attachments, and no callback or timer after the
\* return changes the value returned.
C25_RaceStep ==
    /\ harness.phase = "returned" =>
          /\ harness'.phase = "returned"
          /\ harness'.result = harness.result
    /\ RaceDecided'

C25_FirstSettlementWins == [][C25_RaceStep]_vars

\* The timer fired first and null was returned; the callback that came
\* afterwards with an attachment changed nothing but generatedImagePath.
C25_Witness ==
    /\ harness.phase = "returned"
    /\ harness.result = <<>>
    /\ Len(harness.log) = 2
    /\ harness.log[1].ev = "timeout"
    /\ harness.log[2].ev = "callback"
    /\ harness.log[2].attachments = <<"u1">>
    /\ harness.generatedImagePath = <<"u1">>

(***************************************************************************)
(* Termination of uploadGeneratedImage.  Every call to the backend and to  *)
(* the file system comes back, with a result or an error, and the waits of *)
(* retryOperation end: an invocation that can take a step takes one.       *)
(***************************************************************************)
SpecFair == Init /\ [][Next]_vars /\ WF_vars(Next)

\* No sub-operation has been called more than 3 times.
AttemptsBounded ==
    \A p \in Procs :
        /\ attempts[p].insert <= 3
        /\ attempts[p].upload <= 3
        /\ attempts[p].update <= 3
        /\ attempts[p].errupdate <= 3
        /\ pc[p] # "raised"

\* C26: whatever calls fail, every invocation of uploadGeneratedImage
\* returns (a record or null), having issued at most 3 inserts, 3 blob
\* uploads, 3 completed-updates and 3 error-updates.
C26_TerminatesBounded ==
    /\ []AttemptsBounded
    /\ <>(\A p \in Procs : pc[p] = "returned")

\* The longest run: insert and upload succeed at their third call, the
\* completed-update and the error-update fail three times each.
C26_Witness ==
    \E p \in Procs :
        /\ Returned(p)
        /\ attempts[p] = [insert |-> 3, upload |-> 3, update |-> 3, errupdate |-> 3]
        /\ ret[p] = <<>>

\* C27: with maxAttempts >= 1, retryOperation calls the operation at least
\* once and at most maxAttempts times, a call that succeeded is the last
\* call, and no wait follows the last failed attempt: on exhaustion it has
\* waited maxAttempts - 1 times (1000 + 2000 ms with 3 attempts from 1000).
C27_CallsAndWaits ==
    harness.maxRetries >= 1 =>
        LET r == harness.r
        IN  /\ r.calls <= harness.maxRetries
            /\ r.calls = 0 => r.status = "running"
            /\ r.status = "returned" =>
                  /\ r.calls = harness.failures + 1
                  /\ r.waited = BackoffSum(harness.initialDelay, r.calls - 1)
            /\ r.status = "running" => r.calls = harness.failures
            /\ r.status = "thrown" =>
                  /\ r.calls = harness.maxRetries
                  /\ r.waited = BackoffSum(harness.initialDelay,
                                           harness.maxRetries - 1)
                  /\ (harness.maxRetries = 3 /\ harness.initialDelay = 1000) =>
                        r.waited = 1000 + 2000

\* Three attempts from 1000 ms all failed: two waits, 3000 ms.
C27_Witness ==
    /\ harness.maxRetries = 3
    /\ harness.initialDelay = 1000
    /\ harness.r.status = "thrown"
    /\ harness.r.calls = 3
    /\ harness.r.waited = 3000
    /\ harness.r.delay = 4000

\* The completed-update of invocation p was exhausted after its blob upload
\* had succeeded, and the invocation has returned.
UpdateExhausted(p) ==
    /\ Returned(p)
    /\ recordId[p] # NoRecord
    /\ "update" \in failed[p]

\* C28 as stated: when the blob upload succeeds and the completed-update
\* fails on all of its attempts, the handler marks the record 'error' with an
\* empty storage_path and the uploaded blob stays in the bucket under the
\* record's key; no step removes a blob.
C28_AsStated ==
    \A p \in Procs :
        UpdateExhausted(p) =>
            /\ attempts[p].update = 3
            /\ StoragePathOf(p) \in blobs
            /\ OwnRow(p).status = "error" => OwnRow(p).storage_path = <<>>

\* C29: when the file passed validation and the read of its bytes fails
\* after the record was created, no blob upload and no completed-update is
\* attempted, nothing of the invocation is in the bucket, the failure
\* handler attempts the update of the record to 'error' with the read
\* error's message, and uploadGeneratedImage returns null.
C29_ReadFailure ==
    \A p \in Procs :
        "read" \in failed[p] =>
            /\ validateImage(input[p].file)
            /\ recordId[p] # NoRecord
            /\ attempts[p].upload = 0
            /\ attempts[p].update = 0
            /\ BlobsOf(p) = {}
            /\ caught[p] = <<ReadError>>
            /\ pc[p] \in {"errupdate", "returned"}
            /\ pc[p] = "returned" =>
                  /\ attempts[p].errupdate >= 1
                  /\ ret[p] = <<>>
                  /\ applied[p] >= 1 =>
                        /\ OwnRow(p).status = "error"
                        /\ OwnRow(p).error_message = <<"ENOENT">>
                        /\ OwnRow(p).storage_path = <<>>

\* The read failed and the handler's second attempt marked the record.
C29_Witness ==
    \E p \in Procs :
        /\ Returned(p)
        /\ failed[p] = {"read"}
        /\ attempts[p] = [insert |-> 1, upload |-> 0, update |-> 0, errupdate |-> 2]
        /\ OwnRow(p).status = "error"
        /\ OwnRow(p).error_message = <<"ENOENT">>
        /\ ret[p] = <<>>

\* C30: in getLatestGeneratedImage with no completed record in the store,
\* an answered query counts as a failed attempt (single() reports an error,
\* which is thrown inside retryOperation), so the query is issued again and
\* null is returned only after 3 attempts and the waits of 1000 and 2000 ms
\* between them.
C30_ZeroRowsRetried ==
    (/\ harness.kind = "latest"
     /\ \A i \in DOMAIN records : records[i].status # "completed") =>
        /\ harness.r.status # "returned"
        /\ harness.status = "pending" =>
              /\ harness.r.status = "running"
              /\ harness.r.calls < 3
              /\ harness.r.attempt = harness.r.calls + 1
        /\ harness.status = "returned" =>
              /\ harness.result = <<>>
              /\ harness.r.status = "thrown"
              /\ harness.r.calls = 3
              /\ harness.r.waited = 1000 + 2000
              /\ harness.answered = 3 => harness.r.lastError = <<NoRowsError>>

\* The backend answered all three queries of a store that holds an error
\* record and an uploading one; null came back after the third.
C30_Witness ==
    /\ harness.kind = "latest"
    /\ Len(records) = 2
    /\ records[1].status = "error"
    /\ records[2].status = "uploading"
    /\ harness.answered = 3
    /\ harness.status = "returned"
    /\ harness.result = <<>>
    /\ harness.r.waited = 3000

(***************************************************************************)
(* The POST_IMAGE_TWEET handler and postImageTweet (plugin-twitter).  The  *)
(* repository holds the action twice: actions/postImage.ts ("package"),    *)
(* which generates an image or takes the latest file of the directory, and *)
(* a later text of the same file (part_003), which takes the image path    *)
(* from state.imagePath and also fetches an image given as a URL.  harness *)
(* holds the arguments, the settings, the locals of the two functions and  *)
(* the log of the calls made, in order.                                    *)
(***************************************************************************)
PostVariants == {"package", "part_003"}

\* message.content.text, as words; <<>> is a message without text.
MessageTexts ==
    { <<>>,
      << <<"Post", "the", "latest", "image">> >>,
      << <<"Generate", "a", "sunset", "and", "post", "it">> >>,
      << <<"please", "CREATE", "art">> >>,
      << <<"regenerate", "it">> >> }

\* state.imagePath: not a string (or no state), the empty string, a local
\* path, a URL.
StateImagePaths ==
    { [isString |-> FALSE, value |-> <<>>],
      [isString |-> TRUE, value |-> <<>>],
      [isString |-> TRUE, value |-> <<"generatedImages", "/", "a", ".", "png">>],
      [isString |-> TRUE, value |-> <<"http", "s://backend/a.png">>] }

\* process.env.TWITTER_DRY_RUN: unset (<<>>) or one value.
DryRunValues ==
    { <<>>, <<"true">>, <<"TRUE">>, <<"True">>, <<"false">>, <<"1">>, <<"">> }

\* toLowerCase() of one word.
LowerWord(w) ==
    CASE w = "TRUE" -> "true"
      [] w = "True" -> "true"
      [] w = "Generate" -> "generate"
      [] w = "CREATE" -> "create"
      [] w = "Post" -> "post"
      [] OTHER -> w

\* s.includes(part) for a lower-case word s.
WordIncludes(s, part) ==
    \/ s = part
    \/ <<s, part>> \in {<<"regenerate", "generate">>, <<"recreate", "create">>}

\* text.toLowerCase().includes("generate") || ...includes("create")
WantsGenerate(text) ==
    \E i \in DOMAIN text :
        \/ WordIncludes(LowerWord(text[i]), "generate")
        \/ WordIncludes(LowerWord(text[i]), "create")

\* A dry-run test that compares the value as it is.
IsDryRunExact(env) == env # <<>> /\ env[1] = "true"

\* process.env.TWITTER_DRY_RUN?.toLowerCase() === "true"
IsDryRun(env) == env # <<>> /\ LowerWord(env[1]) = "true"

\* What generateNewImage returns: null or the url of the first attachment.
GenerateResults == { <<>>, <<"http", "s://backend/new.png">> }

\* What getLatestImage returns: null or the path of the newest image file.
LatestResults == { <<>>, <<"generatedImages", "/", "b", ".", "jpg">> }

\* What composeTweetWithImage does: throw, return undefined (content that
\* is not tweet content), return the trimmed text.
ComposeOutcomes ==
    { [throws |-> TRUE, text |-> <<>>],
      [throws |-> FALSE, text |-> <<>>],
      [throws |-> FALSE, text |-> <<"">>],
      [throws |-> FALSE, text |-> <<"look at this">>] }

\* The body of sendTweet's response: no errors field, an empty list of
\* errors, a list with an error; or a response whose json() rejects.
SendOutcomes ==
    { [throws |-> TRUE, errors |-> <<>>],
      [throws |-> FALSE, errors |-> <<>>],
      [throws |-> FALSE, errors |-> << <<>> >>],
      [throws |-> FALSE, errors |-> << <<"duplicate">> >>] }

\* uploadResult.media_id_string: missing or an id.
MediaIds == { <<>>, <<"m1">> }

\* !x for a string or null: null, undefined and "" are falsy.
FalsyString(x) == x = <<>> \/ x = <<"">>

InitPost ==
    /\ InitPipelineIdle
    /\ \E v \in PostVariants, text \in MessageTexts, sp \in StateImagePaths,
          env \in DryRunValues, client \in BOOLEAN, u \in BOOLEAN,
          pw \in BOOLEAN :
          /\ v = "package" => sp = [isString |-> FALSE, value |-> <<>>]
          /\ harness = [kind |-> "post", variant |-> v, text |-> text,
                        stateImagePath |-> sp, env |-> env,
                        hasClient |-> client, username |-> u, password |-> pw,
                        phase |-> "start", imagePath |-> <<>>,
                        tweetContent |-> <<>>, entered |-> FALSE,
                        loggedIn |-> FALSE, mediaId |-> <<>>,
                        body |-> <<>>, result |-> <<>>, log |-> <<>>]

\* return value, from a return statement or from a catch block.
Return(h, value) == [h EXCEPT !.phase = "returned", !.result = <<value>>]

Logged(h, call) == [h EXCEPT !.log = Append(@, call)]

\* if (!mediaId) that never takes the branch.
MediaIdMissingNever(mediaId) == FALSE

\* if (!mediaId)
MediaIdMissing(mediaId) == mediaId = <<>>

\* postImageTweet up to its first await: the client of the runtime or a new
\* Scraper, and for the latter the check of the credentials.
PostBegin(h) ==
    LET e == [h EXCEPT !.entered = TRUE]
    IN  IF h.hasClient THEN [e EXCEPT !.phase = "read"]
        ELSE IF ~h.username \/ ~h.password THEN Return(e, FALSE)
        ELSE [e EXCEPT !.phase = "login"]

\* The handler of actions/postImage.ts up to the image path: a message that
\* asks to generate or create gets generateNewImage, any other the latest
\* file of the directory; reading a text that is not there throws into the
\* handler's catch.
ImageOfPackage(h, generated, latest) ==
    IF h.text = <<>> THEN Return(h, FALSE)
    ELSE IF WantsGenerate(h.text[1])
         THEN IF generated = <<>> THEN Return(Logged(h, "generate"), FALSE)
              ELSE [Logged(h, "generate") EXCEPT !.imagePath = generated,
                                                 !.phase = "compose"]
         ELSE IF latest = <<>> THEN Return(Logged(h, "latest"), FALSE)
              ELSE [Logged(h, "latest") EXCEPT !.imagePath = latest,
                                               !.phase = "compose"]

\* The handler of part_003 up to the image path: state.imagePath when it is
\* a string.
ImageOfState(h) ==
    LET path == IF h.stateImagePath.isString THEN h.stateImagePath.value ELSE <<>>
    IN  IF path = <<>> THEN Return(h, FALSE)
        ELSE [h EXCEPT !.imagePath = path, !.phase = "compose"]

HandlerImage ==
    /\ harness.kind = "post"
    /\ harness.phase = "start"
    /\ \E generated \in GenerateResults, latest \in LatestResults :
          harness' = IF harness.variant = "package"
                     THEN ImageOfPackage(harness, generated, latest)
                     ELSE ImageOfState(harness)
    /\ UNCHANGED pipelineVars

\* await composeTweetWithImage(...), the dry-run check and the call of
\* postImageTweet.
HandlerCompose ==
    /\ harness.phase = "compose"
    /\ \E c \in ComposeOutcomes :
          LET h == Logged(harness, "compose")
          IN  harness' =
                IF c.throws \/ FalsyString(c.text) THEN Return(h, FALSE)
                ELSE IF IsDryRun(h.env)
                     THEN Return([h EXCEPT !.tweetContent = c.text], TRUE)
                     ELSE PostBegin([h EXCEPT !.tweetContent = c.text])
    /\ UNCHANGED pipelineVars

\* await scraper.login(...)
PostLogin ==
    /\ harness.phase = "login"
    /\ \E throws \in BOOLEAN :
          LET h == Logged(harness, "login")
          IN  harness' = IF throws THEN Return(h, FALSE)
                         ELSE [h EXCEPT !.phase = "isLoggedIn"]
    /\ UNCHANGED pipelineVars

\* if (!(await scraper.isLoggedIn()))
PostIsLoggedIn ==
    /\ harness.phase = "isLoggedIn"
    /\ \E answer \in {"throws", "yes", "no"} :
          LET h == Logged(harness, "isLoggedIn")
          IN  harness' = IF answer = "yes"
                         THEN [h EXCEPT !.loggedIn = TRUE, !.phase = "read"]
                         ELSE Return(h, FALSE)
    /\ UNCHANGED pipelineVars

\* The image bytes: fs.readFileSync(imagePath); in part_003 an imagePath
\* that starts with 'http' is fetched, and a response that is not ok
\* returns false.
PostRead ==
    /\ harness.phase = "read"
    /\ \E outcome \in {"ok", "throws", "notOk"} :
          LET h == Logged(harness, "read")
              fetched == /\ harness.variant = "part_003"
                         /\ StartsWith(harness.imagePath, <<"http">>)
          IN  /\ outcome = "notOk" => fetched
              /\ harness' = IF outcome = "ok" THEN [h EXCEPT !.phase = "upload"]
                             ELSE Return(h, FALSE)
    /\ UNCHANGED pipelineVars

\* await scraper.uploadMedia(imageBuffer) and the check of the media id.
PostUpload ==
    /\ harness.phase = "upload"
    /\ \E throws \in BOOLEAN, id \in MediaIds :
          LET h == Logged(harness, "uploadMedia")
          IN  harness' = IF throws THEN Return(h, FALSE)
                         ELSE IF MediaIdMissing(id) THEN Return(h, FALSE)
                         ELSE [h EXCEPT !.mediaId = id, !.phase = "send"]
    /\ UNCHANGED pipelineVars

\* await scraper.sendTweet(...), await result.json(), if (body.errors):
\* body.errors[0].code of an empty list throws into the catch.
PostSend ==
    /\ harness.phase = "send"
    /\ \E throws \in BOOLEAN, answer \in SendOutcomes :
          LET h == Logged(harness, "sendTweet")
          IN  harness' =
                IF throws \/ answer.throws THEN Return(h, FALSE)
                ELSE IF answer.errors # <<>>
                     THEN Return([h EXCEPT !.body = <<answer>>], FALSE)
                     ELSE Return([h EXCEPT !.body = <<answer>>], TRUE)
    /\ UNCHANGED pipelineVars

NextPost ==
    \/ HandlerImage
    \/ HandlerCompose
    \/ PostLogin
    \/ PostIsLoggedIn
    \/ PostRead
    \/ PostUpload
    \/ PostSend

SpecPost == InitPost /\ [][NextPost]_vars

\* The calls to Twitter in the log.
TwitterCalls == {"login", "isLoggedIn", "uploadMedia", "sendTweet"}

InLog(call) == \E i \in DOMAIN harness.log : harness.log[i] = call

NoTwitterCall == \A i \in DOMAIN harness.log : harness.log[i] \notin TwitterCalls

\* C31: the POST_IMAGE_TWEET handler never throws and returns a boolean;
\* with no image path it returns false without composing or posting; when
\* no tweet text is composed it returns false without posting; and with
\* TWITTER_DRY_RUN equal to 'true' in any letter case it makes no Twitter
\* login, media upload or tweet, and returns true once it has an image path
\* and a tweet text.
C31_HandlerOutcomes ==
    LET dryRun == harness.env \in {<<"true">>, <<"TRUE">>, <<"True">>}
    IN  /\ harness.phase # "raised"
        /\ harness.phase = "returned" <=> harness.result # <<>>
        /\ harness.result # <<>> => harness.result[1] \in BOOLEAN
        /\ (harness.phase = "returned" /\ harness.imagePath = <<>>) =>
              /\ harness.result = <<FALSE>>
              /\ ~InLog("compose")
              /\ ~harness.entered
              /\ NoTwitterCall
        /\ (harness.phase = "returned" /\ InLog("compose")
                /\ harness.tweetContent = <<>>) =>
              /\ harness.result = <<FALSE>>
              /\ ~harness.entered
              /\ NoTwitterCall
        /\ dryRun =>
              /\ NoTwitterCall
              /\ ~harness.entered
              /\ (harness.phase = "returned" /\ harness.imagePath # <<>>
                      /\ harness.tweetContent # <<>>) =>
                    harness.result = <<TRUE>>
        /\ harness.tweetContent # <<>> =>
              harness.imagePath # <<>> /\ harness.tweetContent # <<"">>

\* TWITTER_DRY_RUN is 'TRUE': the handler found an image, composed the text
\* and returned true, and nothing was sent to Twitter.
C31_Witness ==
    /\ harness.kind = "post"
    /\ harness.env = <<"TRUE">>
    /\ harness.phase = "returned"
    /\ harness.result = <<TRUE>>
    /\ harness.log = <<"latest", "compose">>
    /\ harness.tweetContent = <<"look at this">>
    /\ ~harness.hasClient

\* The place of a call in the log, 0 when it was not made.
Pos(call) ==
    IF InLog(call) THEN CHOOSE i \in DOMAIN harness.log : harness.log[i] = call
    ELSE 0

\* sendTweet's response was read and its body carries no errors.
SentWithoutErrors == harness.body # <<>> /\ harness.body[1].errors = <<>>

\* C32: postImageTweet never throws and keeps the order of its steps: it
\* logs in only when the runtime has no Twitter client and username and
\* password are both configured; it uploads the media only with a client
\* that existed or that reported to be logged in; it calls sendTweet only
\* after uploadMedia returned a media id; and it returns true only when the
\* body of sendTweet's response carries no errors, false otherwise.
C32_PostOrder ==
    /\ harness.phase # "raised"
    /\ \A i, j \in DOMAIN harness.log :
          (harness.log[i] \in TwitterCalls /\ harness.log[i] = harness.log[j])
              => i = j
    /\ \A i \in DOMAIN harness.log :
          harness.log[i] \in TwitterCalls \cup {"read"} => harness.entered
    /\ InLog("login") =>
          ~harness.hasClient /\ harness.username /\ harness.password
    /\ (harness.entered /\ ~harness.hasClient
            /\ ~(harness.username /\ harness.password)) =>
          NoTwitterCall /\ harness.result = <<FALSE>>
    /\ InLog("isLoggedIn") => Pos("login") > 0 /\ Pos("login") < Pos("isLoggedIn")
    /\ InLog("uploadMedia") =>
          \/ harness.hasClient /\ ~InLog("login")
          \/ /\ harness.loggedIn
             /\ Pos("isLoggedIn") > 0
             /\ Pos("isLoggedIn") < Pos("uploadMedia")
    /\ InLog("sendTweet") =>
          /\ harness.mediaId # <<>>
          /\ Pos("uploadMedia") > 0
          /\ Pos("uploadMedia") < Pos("sendTweet")
    /\ (harness.entered /\ harness.result = <<TRUE>>) =>
          InLog("sendTweet") /\ SentWithoutErrors
    /\ (harness.entered /\ harness.phase = "returned" /\ ~SentWithoutErrors) =>
          harness.result = <<FALSE>>

\* Without a client of the runtime: login, isLoggedIn, the image fetched
\* from its URL, uploadMedia, sendTweet, and true.
C32_Witness ==
    /\ harness.kind = "post"
    /\ harness.variant = "part_003"
    /\ ~harness.hasClient
    /\ harness.log = <<"compose", "login", "isLoggedIn", "read", "uploadMedia",
                       "sendTweet">>
    /\ harness.imagePath = <<"http", "s://backend/a.png">>
    /\ harness.mediaId = <<"m1">>
    /\ harness.result = <<TRUE>>

====
